---- MODULE Spec2Model ----
(***************************************************************************)
(* A model of the model-lifecycle controller of PaddleX:                   *)
(*   paddlex/cv/models/base.py        BaseModel (train_loop, save_model,   *)
(*                                    build_data_loader, prune, ...)       *)
(*   paddlex/cv/models/classifier.py  BaseClassifier (train, evaluate)     *)
(*                                                                         *)
(* Every worker of a data-parallel run is a process of its own with its    *)
(* own model object (self) and its own train_loop locals (loc); the        *)
(* checkpoint directories (kind, files, meta) are shared by all workers.   *)
(* A primary metric (an accuracy) is a small integer, in units of some     *)
(* fixed fraction; 0 is the accuracy 0.0.                                  *)
(***************************************************************************)
EXTENDS Integers, Sequences, FiniteSets, TLC

\* ------------------------------------------------------------------ bounds
MaxRanks == 2          \* world sizes 1..MaxRanks
MaxEpochs == 3         \* num_epochs of a call is in 1..MaxEpochs
MaxSamples == 2        \* a dataset has at most MaxSamples samples
MaxCardBatch == 2      \* per-card batch sizes 1..MaxCardBatch
MaxMetric == 2         \* primary metric values 0..MaxMetric
MaxCalls == 2          \* calls of train on one live model object
MaxExports == 1        \* exports of an inference model in one script

Ranks == 0 .. (MaxRanks - 1)
Metrics == 0 .. MaxMetric

\* ------------------------------------------------------- checkpoint layout
BestDir == 0                       \* osp.join(save_dir, "best_model")
EpochDir(k) == k                   \* osp.join(save_dir, "epoch_{k}")
PruneDir == MaxEpochs + 1           \* the save_dir given to prune
InferDir == MaxEpochs + 2           \* osp.join(save_dir, 'inference_model')
Dirs == 0 .. (MaxEpochs + 2)

\* the files of one checkpoint directory
FileNames == {"model.pdparams", "model.pdopt", "model.yml",
              "eval_details.json", "prune.yml", ".success", "model.pdmodel"}

\* the order in which save_model would write them with the marker first (a faulty
\* variant)
SaveStepsMarkerFirst == <<".success", "model.pdparams", "model.pdopt", "model.yml",
                          "eval_details.json", "prune.yml">>

\* the order in which save_model writes them
SaveSteps == <<"model.pdparams", "model.pdopt", "model.yml",
               "eval_details.json", "prune.yml", ".success">>

\* the order in which _export_inference_model would write its files with the marker
\* first (a faulty variant)
ExportStepsMarkerFirst == <<".success", "model.pdmodel", "prune.yml", "model.yml">>

\* the order in which _export_inference_model writes its files; model.pdmodel is the
\* traced graph
ExportSteps == <<"model.pdmodel", "prune.yml", "model.yml", ".success">>

NoInfo == [completed_epochs |-> -1, status |-> "None", eval_metrics |-> <<>>]

VARIABLES
    nranks,     \* paddle.distributed.get_world_size()
    pc,         \* pc[w]: where worker w is
    args,       \* the arguments of the running call of train (same script on every worker)
    err,        \* err[w]: the exception that ended worker w's call
    self,       \* self[w]: the fields of worker w's model object (pruner: is not None)
    loc,        \* loc[w]: the locals of worker w's train_loop and save_model
    kind,       \* kind[d]: "absent", "file" or "dir"
    files,      \* files[d][f]: 0 (no such file) or the number of the save that wrote f
    meta,       \* meta[d]: the document in model.yml
    nsaves,     \* number of save_model calls started so far
    sensi,      \* analyze_sensitivity's save_dir, its file model.sensi.data and the
                \* arrangement of the transforms of its dataset
    writers,    \* writers[d]: the ranks that wrote into d during train_loop
    logged,     \* the log lines emitted so far: <<line, rank>>
    calls,      \* calls of train returned so far
    evalValues, \* primary metric of the evaluations of this call, in order (all-reduced)
    evalEpochs, \* the epoch (i + 1) of each of them
    bestWrites, \* evaluations of this call (by position) at which best_model was saved
    fed,        \* what the early-stop policy was fed in this call
    priorBest,  \* highest primary metric that a call before the running one saved as
                \* best model
    evalAgree,  \* <<v>> if every worker computed the accuracy v in the latest
                \* evaluation, <<>> if they differed or none was run
    exports,    \* calls of _export_inference_model so far, with the id, the live status
                \* and the step (0: returned) of the latest
    stats       \* a TrainingStats object: its meters, and the batches it was given
                \* since it was made

vars == <<nranks, pc, args, err, self, loc, kind, files, meta, nsaves, sensi, writers,
          logged, calls, evalValues, evalEpochs, bestWrites, fed, priorBest, evalAgree, exports,
          stats>>

Workers == 0 .. (nranks - 1)

\* ---------------------------------------------------------------- helpers
\* the optimizer and the gradients as a call of train makes them: grad counts the
\* backward passes whose gradients are not cleared, steps the optimizer steps, sched
\* the advances of the learning-rate schedule; lr is the position of the schedule at
\* which the learning rate of the latest step was read, used the backward passes the
\* latest optimizer step applied, fwd the network mode of the latest forward pass, and
\* clean whether every backward pass found the gradients cleared
NoEngine == [grad |-> 0, steps |-> 0, sched |-> 0, lr |-> 0, used |-> 0, fwd |-> "none",
             clean |-> TRUE]

\* train_loop, lines 267-279, were the learning rate read after the schedule advanced
\* (a faulty variant)
BatchOpsLrAfterAdvance == <<"forward", "backward", "step", "clear_grad", "lr_step", "get_lr">>

\* train_loop, lines 267-279: the calls of one mini-batch, in order
BatchOps == <<"forward", "backward", "step", "clear_grad", "get_lr", "lr_step">>

\* one call of a mini-batch on the engine e: the network is in mode mode, scheduled says
\* whether optimizer._learning_rate is an LRScheduler
ApplyOp(op, e, mode, scheduled) ==
    CASE op = "forward" -> [e EXCEPT !.fwd = mode]
      [] op = "backward" -> [e EXCEPT !.clean = @ /\ e.grad = 0, !.grad = @ + 1]
      [] op = "step" -> [e EXCEPT !.steps = @ + 1, !.used = e.grad]
      [] op = "clear_grad" -> [e EXCEPT !.grad = 0]
      [] op = "get_lr" -> [e EXCEPT !.lr = e.sched]
      [] op = "lr_step" -> IF scheduled THEN [e EXCEPT !.sched = @ + 1] ELSE e

\* the calls ops[k], ops[k + 1], ... applied in order
RECURSIVE ApplyOps(_, _, _, _, _)
ApplyOps(ops, k, e, mode, scheduled) ==
    IF k > Len(ops) THEN e
    ELSE ApplyOps(ops, k + 1, ApplyOp(ops[k], e, mode, scheduled), mode, scheduled)

\* the train_loop locals right after line 256, and before the call
LocInit == [entry_epochs |-> 0, start_epoch |-> 0, i |-> 0, step |-> 0, current_step |-> 0,
            train_step_each_epoch |-> 0, train_total_step |-> 0,
            best_accuracy |-> -1, best_model_epoch |-> -1,
            current_accuracy |-> <<>>,
            built |-> FALSE, evals |-> 0, epochs |-> <<>>, step_epoch |-> -1,
            stopped |-> FALSE, pretrain_weights |-> FALSE, work |-> "none",
            synced |-> FALSE, eng |-> NoEngine,
            save_dir |-> 0, saveStep |-> 0, saveId |-> 0, saveRet |-> "idle",
            markerAtStart |-> FALSE, removedFile |-> FALSE, toWrite |-> {},
            model_info |-> NoInfo]

NoArgs == [num_epochs |-> 0, train_n |-> 0, train_batch_size |-> 0, eval_n |-> -1,
           eval_shuffle |-> FALSE, save_interval_epochs |-> 1, log_interval_steps |-> 1,
           early_stop |-> FALSE, optimizer |-> "default", warmup_steps |-> 0,
           lr_decay_epochs |-> 30]

\* paddlex.utils.get_single_card_bs: the batch size of one card
get_single_card_bs(batch_size) == batch_size \div nranks

\* len() of paddle's DistributedBatchSampler with drop_last (mode == 'train')
StepsPerEpoch(n, each) == ((n + nranks - 1) \div nranks) \div each

\* build_data_loader, lines 164-166: the batch size the check compares against, were
\* it the per-card batch size in every mode (a faulty variant)
CheckedBatchSizeEachCard(batch_size, mode) == get_single_card_bs(batch_size)

\* build_data_loader, lines 164-166: the batch size the check compares against
CheckedBatchSize(batch_size, mode) ==
    IF mode = "eval" THEN get_single_card_bs(batch_size) ELSE batch_size

\* build_data_loader, lines 171-174: the dataset-size error
SizeError(n, batch_size, mode) == n < CheckedBatchSize(batch_size, mode)

\* train_loop, line 244, were it to start every call at epoch 0 (a faulty variant)
StartEpochZero(completed) == 0

\* train_loop, line 244
StartEpoch(completed) == completed

\* train_loop, line 332, were the comparison not strict (a faulty variant)
ImprovesOrEqual(current_accuracy, best_accuracy) == current_accuracy >= best_accuracy

\* train_loop, line 332
Improves(current_accuracy, best_accuracy) == current_accuracy > best_accuracy

\* train_loop, line 345, were every worker to save (a faulty variant)
MaySaveAnyRank(local_rank) == TRUE

\* train_loop, line 345
MaySave(local_rank) == local_rank = 0

\* train_loop, line 320, were the final epoch not a save point of its own (a faulty
\* variant)
CadenceIntervalOnly(i, a) == (i + 1) % a.save_interval_epochs = 0

\* train_loop, line 320
Cadence(i, a) == ((i + 1) % a.save_interval_epochs = 0) \/ (i = a.num_epochs - 1)

\* train_loop, lines 349-350, were the stop signal ignored (a faulty variant)
AfterEarlyStopNoBreak(signal) == "epoch"

\* train_loop, lines 349-350: a stop signal breaks the epoch loop
AfterEarlyStop(signal) == IF signal THEN "done" ELSE "epoch"

\* paddlex.utils.EarlyStop.__call__: the signals the policy may give for a score; the
\* policy is no part of this model, so both
EarlyStopSignals(current_score) == BOOLEAN

\* build_data_loader, lines 177-181: the sampler options of a loader
Loader(shuffle, mode) == <<[shuffle |-> shuffle, drop_last |-> (mode = "train")]>>

\* evaluate, lines 259-268, were it to count an epoch (a faulty variant)
EvaluateEffectCounting(s, loader) ==
    [s EXCEPT !.net_mode = "eval", !.eval_data_loader = loader, !.completed_epochs = @ + 1]

\* evaluate, lines 259-268: what a call of evaluate that builds its loader does to the
\* model object
EvaluateEffect(s, loader) == [s EXCEPT !.net_mode = "eval", !.eval_data_loader = loader]

\* the sum of the accuracies of the workers 0 .. w
RECURSIVE SumAcc(_, _)
SumAcc(acc, w) == IF w = 0 THEN acc[0] ELSE acc[w] + SumAcc(acc, w - 1)

\* run, lines 91-93, were the sum not divided (a faulty variant)
AllReduceSumOnly(sum, world_size) == sum

\* run, lines 91-93: the all-reduced sum over the world size, in whole metric units
AllReduceMean(sum, world_size) == sum \div world_size

\* run, lines 86-93: acc1 of an evaluation in which worker w computed acc[w]
EvalMetric(acc) ==
    IF nranks > 1 THEN AllReduceMean(SumAcc(acc, nranks - 1), nranks) ELSE acc[0]

\* get_model_info, line 120, were the epoch in progress not counted (a faulty variant)
ModelInfoEpochIndex(s) == [completed_epochs |-> s.completed_epochs - 1, status |-> s.status,
                           eval_metrics |-> s.eval_metrics]

\* get_model_info, lines 102-120, and save_model, line 136
ModelInfo(s) == [completed_epochs |-> s.completed_epochs, status |-> s.status,
                 eval_metrics |-> s.eval_metrics]

\* save_model, lines 148 and 152: whether the save writes file f at all
Writes(f, s) ==
    CASE f = "eval_details.json" -> s.has_eval_details
      [] f = "prune.yml" -> s.status = "Pruned" /\ s.pruner
      [] f = "model.pdmodel" -> FALSE      \* the traced graph is a file of the export
      [] OTHER -> TRUE

\* save_model, lines 137-160: the position in SaveSteps of the next file that the save
\* writes after position k, 0 if there is none
NextSaveStep(k, s) ==
    LET later == {j \in (k + 1) .. Len(SaveSteps) : Writes(SaveSteps[j], s)}
    IN  IF later = {} THEN 0 ELSE CHOOSE j \in later : \A h \in later : j <= h

\* ------------------------------------------------- the epoch metric aggregator
MaxStatValue == 3      \* a metric value of one batch is in 0..MaxStatValue
MaxBatches == 3        \* batches given to one TrainingStats object

\* the metric keys of the batches
StatKeys == {"a", "b"}

\* the outputs of one batch: the keys that appear, and their values (0 for a key that
\* does not appear)
Batches ==
    {b \in [keys : SUBSET StatKeys, val : [StatKeys -> 0 .. MaxStatValue]] :
        \A k \in StatKeys : k \notin b.keys => b.val[k] = 0}

\* TrainingStats(): no key has a value yet
StatsInit == [meters |-> [k \in StatKeys |-> [sum |-> 0, n |-> 0]], seen |-> <<>>]

\* TrainingStats.update for one key, were every batch counted for every key (a faulty
\* variant)
FoldCountingAbsent(m, present, v) == [sum |-> m.sum + v, n |-> m.n + 1]

\* TrainingStats.update for one key: a batch in which the key appears is folded into
\* the running mean of the key, kept as the sum and the number of its values
Fold(m, present, v) == IF present THEN [sum |-> m.sum + v, n |-> m.n + 1] ELSE m

\* TrainingStats.get: for every key that appeared, its mean as <<sum, number>>
StatsGet(st) ==
    [k \in {j \in StatKeys : st.meters[j].n > 0} |-> <<st.meters[k].sum, st.meters[k].n>>]

\* self.__class__.__name__: a class of classifier.py, and a class of the detector
\* family that analyze_sensitivity names
ModelClasses == {"ResNet50", "FasterRCNN"}

\* the classes that have BaseClassifier's train and evaluate
IsClassifier(class_name) == class_name \notin {"FasterRCNN", "MaskRCNN"}

\* ------------------------------------------------------------------- Init
\* BaseModel.__init__, on every worker, with the paths of save_dir as k says. No class of classifier.py
\* sets the attribute eval_details, so hasattr(self, 'eval_details') is false
\* (skip_vars keeps the local skip_vars of the latest prune)
InitOn(k) ==
    /\ nranks \in 1 .. MaxRanks
    /\ pc = [w \in Ranks |-> "idle"]
    /\ args = NoArgs
    /\ err = [w \in Ranks |-> "none"]
    /\ \E c \in ModelClasses :
         self = [w \in Ranks |->
                 [class_name |-> c, completed_epochs |-> 0, status |-> "Normal", pruner |-> FALSE,
                  pruning_ratios |-> FALSE, eval_metrics |-> <<>>, optimizer |-> FALSE,
                  lr_schedule |-> "none",
                  net_mode |-> "train", train_data_loader |-> FALSE,
                  eval_data_loader |-> <<>>, has_eval_details |-> FALSE,
                  skip_vars |-> {}]]
    /\ loc = [w \in Ranks |-> LocInit]
    /\ kind = k
    /\ files = [d \in Dirs |-> [f \in FileNames |-> 0]]
    /\ meta = [d \in Dirs |-> NoInfo]
    /\ nsaves = 0
    /\ sensi = [dir |-> FALSE, file |-> FALSE, transforms |-> "none"]
    /\ writers = [d \in Dirs |-> {}]
    /\ logged = {}
    /\ calls = 0
    /\ evalValues = <<>>
    /\ evalEpochs = <<>>
    /\ bestWrites = {}
    /\ fed = <<>>
    /\ priorBest = -1
    /\ evalAgree = <<>>
    /\ exports = [n |-> 0, id |-> 0, status |-> "None", step |-> 0]
    /\ stats = StatsInit

\* the state after construction with an empty save_dir
Init == InitOn([d \in Dirs |-> "absent"])

\* ----------------------------------------------------------------- train
MaxEvalSamples == 1    \* an evaluation set has at most MaxEvalSamples samples
MaxInterval == 2       \* save_interval_epochs in 1..MaxInterval
MaxLogInterval == 1    \* log_interval_steps in 1..MaxLogInterval

\* the arguments of a call of train; eval_n = -1 is eval_dataset=None, eval_shuffle is
\* the shuffle flag of an evaluation set that has samples; optimizer ("default" is
\* optimizer=None), warmup_steps and lr_decay_epochs (its first entry) keep their
\* defaults
ArgSet ==
    {a \in [num_epochs : 1 .. MaxEpochs,
            train_n : 1 .. MaxSamples,
            train_batch_size : {nranks * b : b \in 1 .. MaxCardBatch},
            eval_n : -1 .. MaxEvalSamples,
            eval_shuffle : BOOLEAN,
            save_interval_epochs : 1 .. MaxInterval,
            log_interval_steps : 1 .. MaxLogInterval,
            early_stop : BOOLEAN,
            optimizer : {"default"},
            warmup_steps : {0},
            lr_decay_epochs : {30}] : a.eval_shuffle => a.eval_n > 0}

\* default_optimizer, lines 125-126, with num_steps_each_epoch of train, line 201
WarmupMisconfigured(a) ==
    /\ a.warmup_steps > 0
    /\ a.warmup_steps > a.lr_decay_epochs * (a.train_n \div a.train_batch_size)

\* default_optimizer, lines 127-140: the exit argument of the three calls of
\* logging.error; the third passes none
WarmupErrorCalls == <<"False", "False", "default">>

\* logging.error(message, exit): whether the call ends the process. With exit=False it
\* returns; a call that passes no exit takes the default of paddlex.utils.logging,
\* which is no part of these files: either
ExitOutcomes(exit) == IF exit = "False" THEN {FALSE} ELSE BOOLEAN

\* default_optimizer, lines 125-140: whether the process is ended while the optimizer
\* is made
DefaultOptimizerExits(a) ==
    IF a.optimizer = "default" /\ WarmupMisconfigured(a)
    THEN UNION {ExitOutcomes(WarmupErrorCalls[j]) : j \in 1 .. Len(WarmupErrorCalls)}
    ELSE {FALSE}

\* train, lines 200-211, and default_optimizer, lines 124-145: the schedule of the
\* optimizer
Scheduler(a) ==
    IF a.optimizer # "default" THEN "none"
    ELSE IF a.warmup_steps > 0 THEN "LinearWarmup" ELSE "PiecewiseDecay"

\* the greater of two metrics
Max(a, b) == IF a >= b THEN a ELSE b

\* BaseClassifier.train, lines 197-211, with arguments out of S: every worker runs the
\* same script; a later call on the live model repeats the script with another
\* num_epochs
TrainWith(S) ==
    /\ calls < MaxCalls
    /\ IsClassifier(self[0].class_name)
    /\ \A w \in Workers : pc[w] = "idle"
    /\ \E a \in S, p \in BOOLEAN :
         /\ calls > 0 => a = [args EXCEPT !.num_epochs = a.num_epochs]
         /\ args' = a
         /\ loc' = [w \in Ranks |-> [LocInit EXCEPT !.pretrain_weights = p]]
         /\ logged' = IF a.optimizer = "default" /\ WarmupMisconfigured(a)
                      THEN logged \cup {<<"warmup_error", w>> : w \in Workers}
                      ELSE logged
         /\ \E exits \in DefaultOptimizerExits(a) :
              IF exits
              THEN /\ pc' = [w \in Ranks |-> IF w \in Workers THEN "error" ELSE pc[w]]
                   /\ err' = [w \in Ranks |-> IF w \in Workers THEN "exit" ELSE err[w]]
                   /\ UNCHANGED self
              ELSE /\ pc' = [w \in Ranks |-> IF w \in Workers THEN "net_init" ELSE pc[w]]
                   /\ self' = [w \in Ranks |->
                                 IF w \in Workers
                                 THEN [self[w] EXCEPT !.optimizer = TRUE,
                                                      !.lr_schedule = Scheduler(a)]
                                 ELSE self[w]]
                   /\ UNCHANGED err
    /\ evalValues' = <<>>
    /\ evalEpochs' = <<>>
    /\ bestWrites' = {}
    /\ fed' = <<>>
    /\ priorBest' = Max(priorBest, loc[0].best_accuracy)
    /\ UNCHANGED <<nranks, sensi, kind, files, meta, nsaves, writers, calls,
                   evalAgree, exports, stats>>

\* BaseClassifier.train in the scripts of the distributed runs
Train == TrainWith(ArgSet)

\* BaseClassifier.train, lines 213-226, and net_initialize
NetInitialize(w) ==
    /\ w \in Workers
    /\ pc[w] = "net_init"
    /\ loc' = [loc EXCEPT ![w].work = IF loc[w].pretrain_weights THEN "pretrained" ELSE @,
                          ![w].pretrain_weights = FALSE]
    /\ pc' = [pc EXCEPT ![w] = "train_loop"]
    /\ UNCHANGED <<nranks, sensi, args, err, self, kind, files, meta, nsaves, writers, logged,
                   calls, evalValues, evalEpochs, bestWrites, fed, priorBest, evalAgree, exports,
                   stats>>

\* train_loop, lines 210-256, when build_data_loader raises the dataset-size error
TrainLoopRaises(w) ==
    /\ w \in Workers
    /\ pc[w] = "train_loop"
    /\ SizeError(args.train_n, args.train_batch_size, "train")
    /\ pc' = [pc EXCEPT ![w] = "error"]
    /\ err' = [err EXCEPT ![w] = "size_train"]
    /\ UNCHANGED <<nranks, sensi, args, self, loc, kind, files, meta, nsaves, writers, logged,
                   calls, evalValues, evalEpochs, bestWrites, fed, priorBest, evalAgree, exports,
                   stats>>

\* train_loop, lines 210-256: the loader is built, the locals are set
TrainLoopEnter(w) ==
    /\ w \in Workers
    /\ pc[w] = "train_loop"
    /\ ~SizeError(args.train_n, args.train_batch_size, "train")
    /\ self' = [self EXCEPT ![w].train_data_loader = TRUE]
    /\ loc' = [loc EXCEPT
                 ![w].built = TRUE,
                 ![w].entry_epochs = self[w].completed_epochs,
                 ![w].start_epoch = StartEpoch(self[w].completed_epochs),
                 ![w].i = StartEpoch(self[w].completed_epochs),
                 ![w].train_step_each_epoch = args.train_n \div args.train_batch_size,
                 ![w].train_total_step = (args.train_n \div args.train_batch_size)
                                         * (args.num_epochs - StartEpoch(self[w].completed_epochs))]
    /\ pc' = [pc EXCEPT ![w] = "epoch"]
    /\ UNCHANGED <<nranks, sensi, args, err, kind, files, meta, nsaves, writers, logged,
                   calls, evalValues, evalEpochs, bestWrites, fed, priorBest, evalAgree, exports,
                   stats>>

\* train_loop, line 258, were the mode left as the last epoch left it (a faulty
\* variant)
ModeAtEpochStartKept(mode) == mode

\* train_loop, line 258: self.net.train() at the start of every epoch
ModeAtEpochStart(mode) == "train"

\* train_loop, lines 257-264: the head of the epoch loop
EpochHead(w) ==
    /\ w \in Workers
    /\ pc[w] = "epoch"
    /\ IF loc[w].i < args.num_epochs
       THEN /\ self' = [self EXCEPT ![w].net_mode = ModeAtEpochStart(@)]
            /\ loc' = [loc EXCEPT ![w].step = 0]
            /\ pc' = [pc EXCEPT ![w] = "batch"]
       ELSE /\ pc' = [pc EXCEPT ![w] = "done"]
            /\ UNCHANGED <<self, loc>>
    /\ UNCHANGED <<nranks, sensi, args, err, kind, files, meta, nsaves, writers, logged,
                   calls, evalValues, evalEpochs, bestWrites, fed, priorBest, evalAgree, exports,
                   stats>>

\* the batches one worker gets in one epoch
Steps == StepsPerEpoch(args.train_n, get_single_card_bs(args.train_batch_size))

\* the gradient all-reduce of paddle.DataParallel: worker v has reached the backward
\* pass of the k-th training step of the call, or went through it and failed after it
StepArrived(v, k) ==
    \/ loc[v].current_step >= k
    \/ pc[v] = "batch" /\ loc[v].current_step = k - 1 /\ loc[v].step < Steps
    \/ err[v] = "engine" /\ loc[v].synced /\ loc[v].current_step = k - 1

\* train_loop, lines 266-312: one mini-batch
TrainStep(w) ==
    /\ w \in Workers
    /\ pc[w] = "batch"
    /\ loc[w].step < Steps
    /\ \A v \in Workers \ {w} : StepArrived(v, loc[w].current_step + 1)
    /\ loc' = [loc EXCEPT ![w].step = @ + 1, ![w].current_step = @ + 1,
                          ![w].step_epoch = loc[w].i, ![w].work = "stepped",
                          ![w].eng = ApplyOps(BatchOps, 1, @, self[w].net_mode,
                                              self[w].lr_schedule # "none")]
    /\ logged' = IF (loc[w].current_step + 1) % args.log_interval_steps = 0 /\ w = 0
                 THEN logged \cup {<<"step", w>>} ELSE logged
    /\ UNCHANGED <<nranks, sensi, pc, args, err, self, kind, files, meta, nsaves, writers,
                   calls, evalValues, evalEpochs, bestWrites, fed, priorBest, evalAgree, exports,
                   stats>>

\* train_loop, lines 266-273, were a failed mini-batch tried again (a faulty variant)
OnEngineErrorRetry == "batch"

\* train_loop, lines 266-273: no try around the mini-batch, the exception leaves
\* train_loop
OnEngineError == "error"

\* train_loop, lines 268-273: the numeric engine raises in a mini-batch, in the forward
\* or backward pass (before the gradient all-reduce is done) or in the optimizer step
\* (after it)
StepFails(w) ==
    /\ w \in Workers
    /\ pc[w] = "batch"
    /\ loc[w].step < Steps
    /\ \E after \in BOOLEAN :
         /\ after => /\ nranks > 1
                     /\ \A v \in Workers \ {w} : StepArrived(v, loc[w].current_step + 1)
         /\ loc' = [loc EXCEPT ![w].synced = after]
    /\ pc' = [pc EXCEPT ![w] = OnEngineError]
    /\ err' = [err EXCEPT ![w] = "engine"]
    /\ UNCHANGED <<nranks, sensi, args, self, kind, files, meta, nsaves, writers, logged,
                   calls, evalValues, evalEpochs, bestWrites, fed, priorBest, evalAgree, exports,
                   stats>>

\* train_loop, lines 314-316: the end of an epoch
EpochEnd(w) ==
    /\ w \in Workers
    /\ pc[w] = "batch"
    /\ loc[w].step >= Steps
    /\ logged' = logged \cup {<<"epoch_finished", w>>}
    /\ self' = [self EXCEPT ![w].completed_epochs = @ + 1]
    /\ loc' = [loc EXCEPT ![w].epochs = Append(@, loc[w].i)]
    /\ pc' = [pc EXCEPT ![w] = "cadence"]
    /\ UNCHANGED <<nranks, sensi, args, err, kind, files, meta, nsaves, writers,
                   calls, evalValues, evalEpochs, bestWrites, fed, priorBest, evalAgree, exports,
                   stats>>

\* ------------------------------------------------------ evaluate and save
\* save_model, lines 131-133, were every existing path removed (a faulty variant)
RemovesPathAlways(k) == k # "absent"

\* save_model, lines 131-133: os.remove for a path that exists and is no directory
RemovesPath(k) == k = "file"

\* save_model, lines 131-136: the directory is made, the metadata is collected
BeginSave(w, d, ret, l, s) ==
    /\ loc' = [loc EXCEPT ![w] = [l EXCEPT !.save_dir = d, !.saveStep = NextSaveStep(0, s),
                                           !.saveId = nsaves + 1, !.saveRet = ret,
                                           !.markerAtStart = (files[d][".success"] # 0),
                                           !.removedFile = RemovesPath(kind[d]),
                                           !.toWrite = {f \in FileNames : Writes(f, s)},
                                           !.model_info = ModelInfo(s)]]
    /\ kind' = [kind EXCEPT ![d] = "dir"]
    /\ files' = IF RemovesPath(kind[d])
                THEN [files EXCEPT ![d] = [f \in FileNames |-> 0]] ELSE files
    /\ meta' = IF RemovesPath(kind[d]) THEN [meta EXCEPT ![d] = NoInfo] ELSE meta
    /\ nsaves' = nsaves + 1
    /\ writers' = IF ret = "idle" THEN writers ELSE [writers EXCEPT ![d] = @ \cup {w}]

\* train_loop, line 320: no evaluation and no checkpoint after this epoch
NoCadence(w) ==
    /\ w \in Workers
    /\ pc[w] = "cadence"
    /\ ~Cadence(loc[w].i, args)
    /\ loc' = [loc EXCEPT ![w].i = @ + 1]
    /\ pc' = [pc EXCEPT ![w] = "epoch"]
    /\ UNCHANGED <<nranks, sensi, args, err, self, kind, files, meta, nsaves, writers, logged,
                   calls, evalValues, evalEpochs, bestWrites, fed, priorBest, evalAgree, exports,
                   stats>>

\* train_loop, line 321: no evaluation set, or an empty one
SkipEvaluate(w) ==
    /\ w \in Workers
    /\ pc[w] = "cadence"
    /\ Cadence(loc[w].i, args)
    /\ args.eval_n <= 0
    /\ pc' = [pc EXCEPT ![w] = "epoch_save"]
    /\ UNCHANGED <<nranks, sensi, args, err, self, loc, kind, files, meta, nsaves, writers,
                   logged, calls, evalValues, evalEpochs, bestWrites, fed, priorBest, evalAgree, exports,
                   stats>>

\* evaluate, lines 254-268, when build_data_loader raises the dataset-size error
EvaluateRaises(w) ==
    /\ w \in Workers
    /\ pc[w] = "cadence"
    /\ Cadence(loc[w].i, args)
    /\ args.eval_n > 0
    /\ SizeError(args.eval_n, args.train_batch_size, "eval")
    /\ self' = [self EXCEPT ![w].net_mode = "eval"]
    /\ logged' = logged \cup {<<"eval_start", w>>}
    /\ pc' = [pc EXCEPT ![w] = "error"]
    /\ err' = [err EXCEPT ![w] = "size_eval"]
    /\ UNCHANGED <<nranks, sensi, args, loc, kind, files, meta, nsaves, writers,
                   calls, evalValues, evalEpochs, bestWrites, fed, priorBest, evalAgree, exports,
                   stats>>

\* the metric all-reduce of run(mode='eval'): worker v has reached the k-th
\* evaluation of the call
EvalArrived(v, k) ==
    \/ loc[v].evals >= k
    \/ pc[v] = "cadence" /\ loc[v].evals = k - 1 /\ Cadence(loc[v].i, args)

\* train_loop, lines 321-325: evaluate; the first worker through the all-reduce fixes
\* what every worker computed
Evaluate(w) ==
    /\ w \in Workers
    /\ pc[w] = "cadence"
    /\ Cadence(loc[w].i, args)
    /\ args.eval_n > 0
    /\ ~SizeError(args.eval_n, args.train_batch_size, "eval")
    /\ \A v \in Workers \ {w} : EvalArrived(v, loc[w].evals + 1)
    /\ \E acc \in [Workers -> Metrics] :
         LET k == loc[w].evals + 1
             known == Len(evalValues) >= k
             val == IF known THEN evalValues[k] ELSE EvalMetric(acc)
             s == EvaluateEffect(self[w], Loader(args.eval_shuffle, "eval"))
         IN  /\ known => acc = [v \in Workers |-> 0]
             /\ evalValues' = IF known THEN evalValues ELSE Append(evalValues, val)
             /\ evalEpochs' = IF known THEN evalEpochs ELSE Append(evalEpochs, loc[w].i + 1)
             /\ evalAgree' = IF known THEN evalAgree
                             ELSE IF \A v \in Workers : acc[v] = acc[0]
                                  THEN <<acc[0]>> ELSE <<>>
             /\ self' = [self EXCEPT ![w] = [s EXCEPT !.eval_metrics = <<val>>]]
             /\ loc' = [loc EXCEPT ![w].evals = k]
    /\ logged' = logged \cup {<<"eval_start", w>>}
    /\ pc' = [pc EXCEPT ![w] = "evaluated"]
    /\ UNCHANGED <<nranks, sensi, args, err, kind, files, meta, nsaves, writers, calls,
                   bestWrites, fed, priorBest, exports, stats>>

\* train_loop, line 334, were the loop index recorded (a faulty variant)
BestEpochIndex(i) == i

\* train_loop, line 334: best_model_epoch of an improvement in the epoch of index i
BestEpoch(i) == i + 1

\* train_loop, lines 327-336: on rank 0 the best-model selection
BestSelect(w) ==
    /\ w \in Workers
    /\ pc[w] = "evaluated"
    /\ LET val == self[w].eval_metrics[1]
           l1 == [loc[w] EXCEPT !.current_accuracy = <<val>>]
           l2 == [l1 EXCEPT !.best_accuracy = val, !.best_model_epoch = BestEpoch(loc[w].i)]
       IN  IF MaySave(w)
           THEN /\ logged' = logged \cup {<<"eval_result", w>>}
                /\ IF Improves(val, loc[w].best_accuracy)
                   THEN /\ BeginSave(w, BestDir, "best_log", l2, self[w])
                        /\ bestWrites' = bestWrites \cup {loc[w].evals}
                        /\ pc' = [pc EXCEPT ![w] = "save"]
                   ELSE /\ loc' = [loc EXCEPT ![w] = l1]
                        /\ pc' = [pc EXCEPT ![w] = "best_log"]
                        /\ UNCHANGED <<kind, files, meta, nsaves, writers, bestWrites>>
           ELSE /\ pc' = [pc EXCEPT ![w] = "epoch_save"]
                /\ UNCHANGED <<loc, logged, kind, files, meta, nsaves, writers, bestWrites>>
    /\ UNCHANGED <<nranks, sensi, args, err, self, calls, evalValues, evalEpochs,
                   fed, priorBest, evalAgree, exports, stats>>

\* train_loop, lines 337-342: the best-model line
BestLog(w) ==
    /\ w \in Workers
    /\ pc[w] = "best_log"
    /\ logged' = IF loc[w].best_model_epoch > 0 THEN logged \cup {<<"best", w>>} ELSE logged
    /\ pc' = [pc EXCEPT ![w] = "epoch_save"]
    /\ UNCHANGED <<nranks, sensi, args, err, self, loc, kind, files, meta, nsaves, writers,
                   calls, evalValues, evalEpochs, bestWrites, fed, priorBest, evalAgree, exports,
                   stats>>

\* train_loop, lines 344-346: the epoch-numbered checkpoint
EpochSave(w) ==
    /\ w \in Workers
    /\ pc[w] = "epoch_save"
    /\ IF MaySave(w)
       THEN /\ BeginSave(w, EpochDir(loc[w].i + 1), "early", loc[w], self[w])
            /\ pc' = [pc EXCEPT ![w] = "save"]
       ELSE /\ loc' = [loc EXCEPT ![w].i = @ + 1]
            /\ pc' = [pc EXCEPT ![w] = "epoch"]
            /\ UNCHANGED <<kind, files, meta, nsaves, writers>>
    /\ UNCHANGED <<nranks, sensi, args, err, self, logged,
                   calls, evalValues, evalEpochs, bestWrites, fed, priorBest, evalAgree, exports,
                   stats>>

\* save_model, lines 137-161: the next file of the save
SaveStep(w) ==
    /\ w \in Workers
    /\ pc[w] = "save"
    /\ LET l == loc[w]
           f == SaveSteps[l.saveStep]
           d == l.save_dir
           next == NextSaveStep(l.saveStep, self[w])
       IN  IF f = "model.pdopt" /\ ~self[w].optimizer
           THEN /\ pc' = [pc EXCEPT ![w] = "error"]
                /\ err' = [err EXCEPT ![w] = "no_optimizer"]
                /\ UNCHANGED <<files, meta, loc, logged>>
           ELSE /\ files' = [files EXCEPT ![d][f] = l.saveId]
                /\ meta' = IF f = "model.yml" THEN [meta EXCEPT ![d] = l.model_info] ELSE meta
                /\ loc' = [loc EXCEPT ![w].saveStep = next]
                /\ pc' = [pc EXCEPT ![w] = IF next = 0 THEN l.saveRet ELSE "save"]
                /\ logged' = IF next = 0 THEN logged \cup {<<"saved", w>>} ELSE logged
                /\ UNCHANGED err
    /\ UNCHANGED <<nranks, sensi, args, self, kind, nsaves, writers,
                   calls, evalValues, evalEpochs, bestWrites, fed, priorBest, evalAgree, exports,
                   stats>>

\* train_loop, lines 348-350: the early-stop policy
EarlyStopCheck(w) ==
    /\ w \in Workers
    /\ pc[w] = "early"
    /\ IF args.eval_n # -1 /\ args.early_stop
       THEN IF loc[w].current_accuracy = <<>>
            THEN /\ pc' = [pc EXCEPT ![w] = "error"]
                 /\ err' = [err EXCEPT ![w] = "unbound"]
                 /\ UNCHANGED <<loc, fed>>
            ELSE \E signal \in EarlyStopSignals(loc[w].current_accuracy[1]) :
                   LET to == AfterEarlyStop(signal)
                   IN  /\ fed' = Append(fed,
                                   [value |-> loc[w].current_accuracy[1],
                                    epoch |-> loc[w].i + 1,
                                    saved |-> /\ loc[w].save_dir = EpochDir(loc[w].i + 1)
                                              /\ files[EpochDir(loc[w].i + 1)][".success"]
                                                   = loc[w].saveId,
                                    stop |-> signal])
                       /\ loc' = [loc EXCEPT ![w].stopped = signal,
                                             ![w].i = IF to = "epoch" THEN @ + 1 ELSE @]
                       /\ pc' = [pc EXCEPT ![w] = to]
                       /\ UNCHANGED err
       ELSE /\ loc' = [loc EXCEPT ![w].i = @ + 1]
            /\ pc' = [pc EXCEPT ![w] = "epoch"]
            /\ UNCHANGED <<err, fed>>
    /\ UNCHANGED <<nranks, sensi, args, self, kind, files, meta, nsaves, writers, logged,
                   calls, evalValues, evalEpochs, bestWrites, priorBest, evalAgree, exports,
                   stats>>

\* the processes are killed while a worker is inside save_model
Crash(w) ==
    /\ w \in Workers
    /\ pc[w] = "save"
    /\ pc' = [v \in Ranks |-> IF v \in Workers THEN "crashed" ELSE pc[v]]
    /\ UNCHANGED <<nranks, sensi, args, err, self, loc, kind, files, meta, nsaves, writers,
                   logged, calls, evalValues, evalEpochs, bestWrites, fed, priorBest, evalAgree, exports,
                   stats>>

\* train returns on every worker
Return ==
    /\ \A w \in Workers : pc[w] = "done"
    /\ pc' = [w \in Ranks |-> "idle"]
    /\ calls' = calls + 1
    /\ UNCHANGED <<nranks, sensi, args, err, self, loc, kind, files, meta, nsaves, writers,
                   logged, evalValues, evalEpochs, bestWrites, fed, priorBest, evalAgree, exports,
                   stats>>

\* train_avg_metrics.update(outputs), eval_metrics.update(outputs): one batch is given
\* to the aggregator
StatsUpdate(b) ==
    /\ b \in Batches
    /\ Len(stats.seen) < MaxBatches
    /\ stats' = [meters |-> [k \in StatKeys |->
                                Fold(stats.meters[k], k \in b.keys, b.val[k])],
                 seen |-> Append(stats.seen, b)]
    /\ UNCHANGED <<nranks, pc, args, err, self, loc, kind, files, meta, nsaves, sensi,
                   writers, logged, calls, evalValues, evalEpochs, bestWrites, fed,
                   priorBest, evalAgree, exports>>

\* train_avg_metrics = TrainingStats(), eval_metrics = TrainingStats(): the aggregator
\* of the next epoch or evaluation starts empty
StatsReset ==
    /\ stats.seen # <<>>
    /\ stats' = StatsInit
    /\ UNCHANGED <<nranks, pc, args, err, self, loc, kind, files, meta, nsaves, sensi,
                   writers, logged, calls, evalValues, evalEpochs, bestWrites, fed,
                   priorBest, evalAgree, exports>>

\* ------------------------------------------------------- the other methods
\* evaluate, lines 254-284, called in a script of one process on a dataset of n samples
\* with the shuffle flag shuffle
EvaluateCall(n, batch_size, shuffle) ==
    /\ nranks = 1
    /\ pc[0] = "idle"
    /\ IsClassifier(self[0].class_name)
    /\ n \in 0 .. MaxEvalSamples
    /\ batch_size \in 1 .. MaxCardBatch
    /\ shuffle \in BOOLEAN
    /\ logged' = logged \cup {<<"eval_start", 0>>}
    /\ IF SizeError(n, batch_size, "eval")
       THEN /\ self' = [self EXCEPT ![0].net_mode = "eval"]
            /\ pc' = [pc EXCEPT ![0] = "error"]
            /\ err' = [err EXCEPT ![0] = "size_eval"]
       ELSE /\ self' = [self EXCEPT ![0] = EvaluateEffect(self[0], Loader(shuffle, "eval"))]
            /\ UNCHANGED <<pc, err>>
    /\ UNCHANGED <<nranks, sensi, args, loc, kind, files, meta, nsaves, writers, calls,
                   evalValues, evalEpochs, bestWrites, fed, priorBest, evalAgree, exports,
                   stats>>

\* _export_inference_model, line 445, were the live status written to the document (a
\* faulty variant)
ExportedStatusLive(status) == status

\* _export_inference_model, line 445: the status in the document of the artifact
ExportedStatus(status) == "Infer"

\* _export_inference_model, were it to mark the live model too (a faulty variant)
StatusAfterExportInfer(status) == "Infer"

\* _export_inference_model, lines 430-455: the status of the live model after an export
StatusAfterExport(status) == status

\* _export_inference_model, line 437: whether the export writes file f at all
ExportWrites(f, s) == f = "prune.yml" => s.status = "Pruned"

\* _export_inference_model, lines 435-453: the position in ExportSteps of the next file
\* written after position k, 0 if there is none
NextExportStep(k, s) ==
    LET later == {j \in (k + 1) .. Len(ExportSteps) : ExportWrites(ExportSteps[j], s)}
    IN  IF later = {} THEN 0 ELSE CHOOSE j \in later : \A h \in later : j <= h

\* _export_inference_model, lines 431-434, in a script of one process
ExportBegin ==
    /\ nranks = 1
    /\ pc[0] = "idle"
    /\ exports.n < MaxExports
    /\ self' = [self EXCEPT ![0].net_mode = "eval",
                            ![0].status = StatusAfterExport(self[0].status)]
    /\ exports' = [n |-> exports.n + 1, id |-> nsaves + 1, status |-> self[0].status,
                   step |-> NextExportStep(0, self[0])]
    /\ nsaves' = nsaves + 1
    /\ pc' = [pc EXCEPT ![0] = "export"]
    /\ UNCHANGED <<nranks, sensi, args, err, loc, kind, files, meta, writers, logged, calls,
                   evalValues, evalEpochs, bestWrites, fed, priorBest, evalAgree, stats>>

\* _export_inference_model, lines 435-455: the next file of the export
ExportStep ==
    /\ pc[0] = "export"
    /\ LET f == ExportSteps[exports.step]
           next == NextExportStep(exports.step, self[0])
       IN  IF f = "prune.yml" /\ ~self[0].pruner
           THEN /\ pc' = [pc EXCEPT ![0] = "error"]
                /\ err' = [err EXCEPT ![0] = "no_pruner"]
                /\ UNCHANGED <<files, meta, kind, exports, logged>>
           ELSE /\ files' = [files EXCEPT ![InferDir][f] = exports.id]
                /\ kind' = [kind EXCEPT ![InferDir] = "dir"]
                /\ meta' = IF f = "model.yml"
                           THEN [meta EXCEPT ![InferDir] =
                                   [ModelInfo(self[0]) EXCEPT
                                       !.status = ExportedStatus(self[0].status)]]
                           ELSE meta
                /\ exports' = [exports EXCEPT !.step = next]
                /\ pc' = [pc EXCEPT ![0] = IF next = 0 THEN "idle" ELSE "export"]
                /\ logged' = IF next = 0 THEN logged \cup {<<"exported", 0>>} ELSE logged
                /\ UNCHANGED err
    /\ UNCHANGED <<nranks, sensi, args, self, loc, nsaves, writers, calls,
                   evalValues, evalEpochs, bestWrites, fed, priorBest, evalAgree, stats>>

\* ---------------------------------------------------------------- pruning
Criteria == {"l1_norm", "fpgm", "other"}

\* analyze_sensitivity, lines 366-371, were the criterion not checked (a faulty
\* variant)
AnalyzeRefusesFamilyOnly(class_name, criterion) ==
    IF class_name \in {"FasterRCNN", "MaskRCNN"} THEN "unsupported" ELSE "none"

\* analyze_sensitivity, lines 366-371: the exception of the class check, else the
\* assertion on the criterion, else none
AnalyzeRefuses(class_name, criterion) ==
    IF class_name \in {"FasterRCNN", "MaskRCNN"} THEN "unsupported"
    ELSE IF criterion \notin {"l1_norm", "fpgm"} THEN "criterion"
    ELSE "none"

\* analyze_sensitivity, lines 366-396, in a script of one process
AnalyzeSensitivity(criterion) ==
    /\ nranks = 1
    /\ pc[0] = "idle"
    /\ criterion \in Criteria
    /\ LET refused == AnalyzeRefuses(self[0].class_name, criterion)
       IN  IF refused # "none"
           THEN /\ pc' = [pc EXCEPT ![0] = "error"]
                /\ err' = [err EXCEPT ![0] = refused]
                /\ UNCHANGED <<self, sensi>>
           ELSE /\ self' = [self EXCEPT
                              ![0].net_mode = "train",
                              ![0].pruner = TRUE]
                /\ sensi' = [dir |-> TRUE, file |-> TRUE, transforms |-> "eval"]
                /\ UNCHANGED <<pc, err>>
    /\ UNCHANGED <<nranks, args, loc, kind, files, meta, nsaves, writers, logged, calls,
                   evalValues, evalEpochs, bestWrites, fed, priorBest, evalAgree, exports,
                   stats>>

\* prune, line 407, were a pruned model never refused (a faulty variant)
PruneRefusesNever(status) == FALSE

\* prune, line 407: a pruned model is refused
PruneRefuses(status) == status = "Pruned"

\* prune, lines 407-428, in a script of one process; save is save_dir is not None
\* prune, line 415: the width that the leading dimension of a parameter is compared with
MinPruneWidth == 8

\* the parameters of self.net, each named by its leading dimension param.shape[0]: one
\* narrower than the width, one as wide, one wider
NetParameters == (MinPruneWidth - 1) .. (MinPruneWidth + 1)

\* prune, lines 413-416: the parameters put into skip_vars
SkipVars(params) == {p \in params : p <= MinPruneWidth}

\* prune, line 410, were a model without a pruner pruned all the same (a faulty variant)
PrunerMissingIgnored(pruner) == FALSE

\* prune, line 410: self.pruner.inputs raises on the None that __init__ left (line 55)
PrunerMissing(pruner) == ~pruner

Prune(save) ==
    /\ nranks = 1
    /\ pc[0] = "idle"
    /\ save \in BOOLEAN
    /\ IF PruneRefuses(self[0].status)
       THEN /\ pc' = [pc EXCEPT ![0] = "error"]
            /\ err' = [err EXCEPT ![0] = "pruned_again"]
            /\ UNCHANGED <<self, loc, kind, files, meta, nsaves, writers>>
       ELSE IF PrunerMissing(self[0].pruner)
       THEN /\ pc' = [pc EXCEPT ![0] = "error"]
            /\ err' = [err EXCEPT ![0] = "no_pruner"]
            /\ UNCHANGED <<self, loc, kind, files, meta, nsaves, writers>>
       ELSE LET s == [self[0] EXCEPT !.pruning_ratios = TRUE, !.status = "Pruned",
                                     !.skip_vars = SkipVars(NetParameters)]
            IN  /\ self' = [self EXCEPT ![0] = s]
                /\ UNCHANGED err
                /\ IF save
                   THEN /\ BeginSave(0, PruneDir, "idle", loc[0], s)
                        /\ pc' = [pc EXCEPT ![0] = "save"]
                   ELSE UNCHANGED <<pc, loc, kind, files, meta, nsaves, writers>>
    /\ UNCHANGED <<nranks, sensi, args, logged, calls,
                   evalValues, evalEpochs, bestWrites, fed, priorBest, evalAgree, exports,
                   stats>>

Next ==
    \/ Train
    \/ \E w \in Ranks :
         \/ NetInitialize(w)
         \/ TrainLoopRaises(w)
         \/ TrainLoopEnter(w)
         \/ EpochHead(w)
         \/ TrainStep(w)
         \/ StepFails(w)
         \/ EpochEnd(w)
         \/ NoCadence(w)
         \/ SkipEvaluate(w)
         \/ EvaluateRaises(w)
         \/ Evaluate(w)
         \/ BestSelect(w)
         \/ BestLog(w)
         \/ EpochSave(w)
         \/ SaveStep(w)
         \/ EarlyStopCheck(w)
         \/ Crash(w)
    \/ Return
    \/ \E criterion \in Criteria : AnalyzeSensitivity(criterion)
    \/ \E save \in BOOLEAN : Prune(save)

Spec == Init /\ [][Next]_vars

\* ------------------------------------------------- the life of one model object
MaxLifeEpochs == 2     \* num_epochs of a call in a script of SpecLife

\* the arguments of train in a script that also evaluates, prunes and exports: short
\* runs without early stopping on sets that are not shuffled
LifeArgSet ==
    {a \in ArgSet : a.num_epochs <= MaxLifeEpochs /\ ~a.early_stop /\ ~a.eval_shuffle}

\* BaseClassifier.train in such a script
TrainLife == TrainWith(LifeArgSet)

\* BaseModel.__init__ in a script of one process
InitLife == Init /\ nranks = 1

\* a script of one process calls the public methods in any order
NextLife ==
    \/ TrainLife
    \/ \E w \in Ranks :
         \/ NetInitialize(w)
         \/ TrainLoopRaises(w)
         \/ TrainLoopEnter(w)
         \/ EpochHead(w)
         \/ TrainStep(w)
         \/ StepFails(w)
         \/ EpochEnd(w)
         \/ NoCadence(w)
         \/ SkipEvaluate(w)
         \/ EvaluateRaises(w)
         \/ Evaluate(w)
         \/ BestSelect(w)
         \/ BestLog(w)
         \/ EpochSave(w)
         \/ SaveStep(w)
         \/ EarlyStopCheck(w)
         \/ Crash(w)
    \/ Return
    \/ \E n \in 0 .. MaxEvalSamples, batch_size \in 1 .. MaxCardBatch, shuffle \in BOOLEAN :
         EvaluateCall(n, batch_size, shuffle)
    \/ ExportBegin
    \/ ExportStep
    \/ \E criterion \in Criteria : AnalyzeSensitivity(criterion)
    \/ \E save \in BOOLEAN : Prune(save)

SpecLife == InitLife /\ [][NextLife]_vars

\* ------------------------------------------------------------ properties
\* C1: a call of train_loop that starts with completed_epochs = K and is not cut
\* short by early stopping or an exception runs, for num_epochs = N > K, exactly
\* the epochs K .. N-1 and ends with completed_epochs = N; for K >= N it runs no
\* epoch and leaves completed_epochs at K.
C1_ResumeRunsRemainingEpochs ==
    \A w \in Workers :
        (pc[w] = "done" /\ ~loc[w].stopped) =>
            LET K == loc[w].entry_epochs
                N == args.num_epochs
            IN  IF N > K
                THEN /\ loc[w].epochs = [j \in 1 .. (N - K) |-> K + j - 1]
                     /\ self[w].completed_epochs = N
                ELSE /\ loc[w].epochs = <<>>
                     /\ self[w].completed_epochs = K

\* a resumed call has run its two remaining epochs
C1_Witness ==
    \E w \in Workers :
        /\ pc[w] = "done" /\ ~loc[w].stopped
        /\ loc[w].entry_epochs = 1 /\ args.num_epochs = 3
        /\ loc[w].epochs = <<1, 2>>

MaxWarmup == 3         \* warmup_steps in 0..MaxWarmup
MaxDecayEpoch == 2     \* lr_decay_epochs[0] in 1..MaxDecayEpoch

\* the arguments of train in the scripts that set the warm-up or pass an optimizer of
\* their own with a plain learning rate ("given"): one process, batches of
\* one sample, with and without an evaluation set
WarmArgSet ==
    [num_epochs : 1 .. MaxLifeEpochs,
     train_n : 1 .. MaxSamples,
     train_batch_size : {1},
     eval_n : {-1, MaxEvalSamples},
     eval_shuffle : {FALSE},
     save_interval_epochs : {1},
     log_interval_steps : {1},
     early_stop : {FALSE},
     optimizer : {"default", "given"},
     warmup_steps : 0 .. MaxWarmup,
     lr_decay_epochs : 1 .. MaxDecayEpoch]

\* BaseClassifier.train in those scripts
TrainWarm == TrainWith(WarmArgSet)

\* one process; the path of the first checkpoint may be taken by a plain file
InitWarm ==
    /\ \E k \in {"absent", "file"} :
         InitOn([d \in Dirs |-> IF d = EpochDir(1) THEN k ELSE "absent"])
    /\ nranks = 1
    /\ self[0].class_name = "ResNet50"

NextWarm ==
    \/ TrainWarm
    \/ \E w \in Ranks :
         \/ NetInitialize(w)
         \/ TrainLoopEnter(w)
         \/ EpochHead(w)
         \/ TrainStep(w)
         \/ StepFails(w)
         \/ EpochEnd(w)
         \/ SkipEvaluate(w)
         \/ Evaluate(w)
         \/ BestSelect(w)
         \/ BestLog(w)
         \/ EpochSave(w)
         \/ SaveStep(w)
         \/ EarlyStopCheck(w)
         \/ Crash(w)
    \/ Return

SpecWarm == InitWarm /\ [][NextWarm]_vars

MaxStepSamples == 3        \* training sets of 1..MaxStepSamples samples
MaxStepLogInterval == 2    \* log_interval_steps in 1..MaxStepLogInterval

\* the arguments of train in the scripts that vary the size of the training set against
\* the batch size and the number of workers: no evaluation set, default optimizer
StepArgSet ==
    [num_epochs : 1 .. MaxLifeEpochs,
     train_n : 1 .. MaxStepSamples,
     train_batch_size : {nranks * b : b \in 1 .. MaxCardBatch},
     eval_n : {-1},
     eval_shuffle : {FALSE},
     save_interval_epochs : {1},
     log_interval_steps : 1 .. MaxStepLogInterval,
     early_stop : {FALSE},
     optimizer : {"default"},
     warmup_steps : {0},
     lr_decay_epochs : {30}]

\* BaseClassifier.train in those scripts
TrainSized == TrainWith(StepArgSet)

\* a classifier on 1..MaxRanks workers
InitSized == Init /\ self[0].class_name = "ResNet50"

NextSized ==
    \/ TrainSized
    \/ \E w \in Ranks :
         \/ NetInitialize(w)
         \/ TrainLoopRaises(w)
         \/ TrainLoopEnter(w)
         \/ EpochHead(w)
         \/ TrainStep(w)
         \/ EpochEnd(w)
         \/ SkipEvaluate(w)
         \/ EpochSave(w)
         \/ SaveStep(w)
         \/ EarlyStopCheck(w)
    \/ Return

SpecSized == InitSized /\ [][NextSized]_vars

\* the aggregator alone, fed with every sequence of batches
InitStats == Init /\ nranks = 1 /\ self[0].class_name = "ResNet50"

NextStats ==
    \/ \E b \in Batches : StatsUpdate(b)
    \/ StatsReset

SpecStats == InitStats /\ [][NextStats]_vars

\* C2: within one call, best_model is saved at an evaluation if and only if its
\* primary metric is strictly greater than that of every earlier evaluation of the
\* call.
C2_BestModelStrictlyGreater ==
    \A k \in 1 .. (IF pc[0] = "evaluated" THEN loc[0].evals - 1 ELSE loc[0].evals) :
        (k \in bestWrites) <=> (\A j \in 1 .. (k - 1) : evalValues[j] < evalValues[k])

\* the evaluations order like 0.5, 0.5, 0.6: best_model was saved at the first and
\* the third only
C2_Witness ==
    /\ pc[0] = "done"
    /\ loc[0].evals = 3
    /\ evalValues = <<1, 1, 2>>
    /\ bestWrites = {1, 3}
    /\ files[BestDir][".success"] # 0

\* C3 (as claimed): whenever no save is writing into a directory, a directory with
\* the success marker holds weights, optimizer state and metadata of the save that
\* wrote the marker.
C3_MarkedCheckpointIsOneSave ==
    \A d \in Dirs :
        (/\ files[d][".success"] # 0
         /\ \A w \in Workers : ~(pc[w] = "save" /\ loc[w].save_dir = d))
        => /\ files[d]["model.pdparams"] = files[d][".success"]
           /\ files[d]["model.pdopt"] = files[d][".success"]
           /\ files[d]["model.yml"] = files[d][".success"]

\* the files that the save of worker w has to write, the marker apart, are written
SaveComplete(w) ==
    \A f \in loc[w].toWrite \ {".success"} : files[loc[w].save_dir][f] = loc[w].saveId

\* C4: a save writes weights, optimizer state, metadata, evaluation details, pruning
\* info and the marker in this order, so a save into a directory that held no
\* marker, running or interrupted, leaves the marker absent unless its other files
\* are complete.
C4_MarkerWrittenLast ==
    \A w \in Workers :
        LET d == loc[w].save_dir
            id == loc[w].saveId
            order == <<"model.pdparams", "model.pdopt", "model.yml",
                       "eval_details.json", "prune.yml", ".success">>
        IN  id > 0 =>
              /\ \A k \in 1 .. Len(order) :
                     files[d][order[k]] = id =>
                         \A j \in 1 .. (k - 1) :
                             order[j] \in loc[w].toWrite => files[d][order[j]] = id
              /\ (loc[w].saveStep > 0 /\ ~loc[w].markerAtStart) =>
                     (files[d][".success"] = 0 \/ SaveComplete(w))

\* a first save into a directory was interrupted after the metadata: no marker
C4_Witness ==
    /\ pc[0] = "crashed"
    /\ loc[0].saveStep > 0 /\ ~loc[0].markerAtStart
    /\ files[loc[0].save_dir]["model.yml"] = loc[0].saveId
    /\ files[loc[0].save_dir][".success"] = 0

\* worker w has run the build_data_loader of train_loop in this call
TrainLoaderDecided(w) == pc[w] \notin {"idle", "net_init", "train_loop"}

\* C5 (as claimed): train_loop raises the dataset-size error if and only if the
\* training set is smaller than the per-worker batch size.
C5_RaisesIffBelowPerWorkerBatch ==
    \A w \in Workers :
        TrainLoaderDecided(w) =>
            (err[w] = "size_train"
                <=> args.train_n < get_single_card_bs(args.train_batch_size))

\* C5 (amended): for a batch size that divides among the workers, train_loop raises
\* the dataset-size error if and only if the training set is smaller than the total
\* train_batch_size; it raises before the loader is built and before any step.
C5_RaisesIffBelowTotalBatch ==
    \A w \in Workers :
        TrainLoaderDecided(w) =>
            /\ err[w] = "size_train" <=> args.train_n < args.train_batch_size
            /\ err[w] = "size_train" => ~loc[w].built /\ loc[w].current_step = 0

\* two workers: the set holds a batch for one worker but not the total batch
C5_Witness ==
    \E w \in Workers :
        /\ nranks = 2
        /\ err[w] = "size_train"
        /\ args.train_n >= get_single_card_bs(args.train_batch_size)
        /\ ~loc[w].built

\* C6 (as claimed): a dataset-size error, of the training or of the evaluation set,
\* is never raised after pretrained weights were initialised or a step was run.
C6_SizeErrorBeforeExpensiveWork ==
    \A w \in Workers :
        err[w] \in {"size_train", "size_eval"} => loc[w].work = "none"

\* C7: only the worker of rank 0 runs save_model in train_loop, so no checkpoint
\* directory has two writers.
C7_OnlyRankZeroSaves ==
    /\ \A w \in Workers : (pc[w] = "save" /\ loc[w].saveRet # "idle") => w = 0
    /\ \A d \in Dirs : writers[d] \subseteq {0}

\* two workers finished an epoch; best_model and epoch_1 are complete
C7_Witness ==
    /\ nranks = 2
    /\ self[1].completed_epochs >= 1
    /\ files[BestDir][".success"] # 0
    /\ files[EpochDir(1)][".success"] # 0
    /\ writers[BestDir] = {0} /\ writers[EpochDir(1)] = {0}

ProgressLines == {"step", "epoch_finished", "eval_start", "eval_result", "best"}

\* C8 (as claimed): every progress log line is emitted by the worker of rank 0.
C8_OnlyRankZeroLogs ==
    \A e \in logged : e[1] \in ProgressLines => e[2] = 0

\* worker w is inside the epoch loop of train_loop
InTrainLoop(w) ==
    \/ pc[w] \in {"epoch", "batch", "cadence", "evaluated", "best_log", "epoch_save",
                 "early"}
    \/ pc[w] = "save" /\ loc[w].saveRet # "idle"

\* C9: with early stopping and a non-empty evaluation set, the policy is fed the
\* primary metric of every evaluation once, after that epoch's checkpoint is
\* complete; after a stop signal at the end of epoch e the worker running the policy
\* has left the epoch loop, every worker has completed_epochs = e, and no worker
\* has run a step of a later epoch.
C9_EarlyStopFedOncePerEvaluation ==
    (args.early_stop /\ args.eval_n > 0) =>
        /\ \A k \in 1 .. Len(fed) :
               /\ k <= loc[0].evals
               /\ fed[k].value = evalValues[k]
               /\ fed[k].epoch = evalEpochs[k]
               /\ fed[k].saved
        /\ pc[0] \in {"epoch", "batch", "cadence", "done"} => Len(fed) = loc[0].evals
        /\ loc[0].stopped =>
               /\ ~InTrainLoop(0)
               /\ fed[Len(fed)].stop
               /\ \A w \in Workers : self[w].completed_epochs = fed[Len(fed)].epoch
               /\ \A w \in Workers : loc[w].step_epoch <= fed[Len(fed)].epoch - 1

\* two workers: the policy stopped the run after its second evaluation, before the
\* last epoch
C9_Witness ==
    /\ nranks = 2
    /\ loc[0].stopped /\ pc[0] = "done"
    /\ Len(fed) = 2
    /\ args.num_epochs > self[0].completed_epochs

\* C10 (as claimed): once an earlier call has saved a best model, a later call
\* saves best_model only at an evaluation whose primary metric exceeds the best of
\* the earlier calls.
C10_BestSurvivesResume ==
    priorBest >= 0 => \A k \in bestWrites : evalValues[k] > priorBest

\* worker w takes a step of evaluate, inside train_loop or called directly
EvaluateStep(w) ==
    \/ Evaluate(w)
    \/ EvaluateRaises(w)
    \/ /\ w = 0
       /\ \E n \in 0 .. MaxEvalSamples, batch_size \in 1 .. MaxCardBatch, shuffle \in BOOLEAN :
            EvaluateCall(n, batch_size, shuffle)

\* C11: a call of evaluate, inside train_loop or direct, leaves completed_epochs, the
\* optimizer, the best metric and its epoch, and what the early-stop policy was fed
\* as they were.
C11_EvaluateKeepsTrainingState ==
    [][\A w \in Workers :
          EvaluateStep(w) =>
              /\ self'[w].completed_epochs = self[w].completed_epochs
              /\ self'[w].optimizer = self[w].optimizer
              /\ loc'[w].best_accuracy = loc[w].best_accuracy
              /\ loc'[w].best_model_epoch = loc[w].best_model_epoch
              /\ fed' = fed]_vars

\* the second evaluation of a call has returned a lower metric than the first: the best
\* metric and the epoch count are those of before
C11_Witness ==
    /\ pc[0] = "evaluated"
    /\ loc[0].evals = 2
    /\ self[0].eval_metrics = <<0>>
    /\ self[0].net_mode = "eval"
    /\ loc[0].best_accuracy = 2 /\ loc[0].best_model_epoch = 1
    /\ self[0].completed_epochs = 2
\* a step of prune
PruneStep == \E save \in BOOLEAN : Prune(save)

\* C12: prune on a model whose status is Pruned ends with the double-pruning error,
\* with or without a save_dir, and leaves the model object and the disk as they were.
C12_PrunedModelRefusesPrune ==
    [][(PruneStep /\ self[0].status = "Pruned") =>
          /\ pc'[0] = "error" /\ err'[0] = "pruned_again"
          /\ self' = self
          /\ kind' = kind /\ files' = files /\ meta' = meta /\ sensi' = sensi
          /\ nsaves' = nsaves]_vars

\* a model pruned and saved was handed to prune again
C12_Witness ==
    /\ err[0] = "pruned_again"
    /\ self[0].status = "Pruned" /\ self[0].pruning_ratios
    /\ files[PruneDir][".success"] # 0
\* C13: the status of the live model is always Normal or Pruned, never Infer; it
\* changes only from Normal to Pruned, and only in a step of prune.
C13_StatusOneWay ==
    /\ [](\A w \in Workers : self[w].status \in {"Normal", "Pruned"})
    /\ [][\A w \in Workers :
            self'[w].status # self[w].status =>
                /\ self[w].status = "Normal" /\ self'[w].status = "Pruned"
                /\ PruneStep]_vars

\* a pruned model was trained again, saved and exported: its status is still Pruned
C13_Witness ==
    /\ self[0].status = "Pruned"
    /\ calls = 1
    /\ files[InferDir][".success"] # 0
    /\ meta[EpochDir(1)].status = "Pruned"

\* C14: the document of an exported artifact has the status Infer; an export writes
\* the traced graph, the pruning info (exactly when the live status is Pruned), the
\* document and then the marker, so the marker is there only with the other files of
\* that export.
C14_ExportWritesInferThenMarker ==
    LET id == exports.id
        order == <<"model.pdmodel", "prune.yml", "model.yml", ".success">>
    IN  /\ files[InferDir]["model.yml"] # 0 => meta[InferDir].status = "Infer"
        /\ id > 0 =>
              /\ \A k \in 1 .. Len(order) :
                     files[InferDir][order[k]] = id =>
                         \A j \in 1 .. (k - 1) :
                             (order[j] = "prune.yml" => exports.status = "Pruned")
                                 => files[InferDir][order[j]] = id
              /\ files[InferDir]["prune.yml"] = id => exports.status = "Pruned"
              /\ (exports.step = 0 /\ pc[0] # "error") =>
                     files[InferDir][".success"] = id

\* a pruned model was exported: the artifact has pruning info, a document with the
\* status Infer and the marker
C14_Witness ==
    /\ self[0].status = "Pruned"
    /\ exports.status = "Pruned" /\ exports.step = 0
    /\ files[InferDir]["prune.yml"] = exports.id
    /\ files[InferDir][".success"] = exports.id
    /\ meta[InferDir].status = "Infer"
\* rank 0 leaves the end of an epoch that ran to its end: to the next epoch or out of
\* the loop
EpochLeft == pc[0] \in {"cadence", "early"} /\ pc'[0] \in {"epoch", "done"}

\* C15: rank 0 has written the checkpoint epoch_{i+1} at the end of epoch i exactly
\* when (i + 1) is a multiple of save_interval_epochs or i is the last epoch, with and
\* without an evaluation set; a run of at least one epoch that was not stopped early
\* ends with the complete checkpoint of epoch num_epochs.
C15_EpochCheckpointCadence ==
    /\ [][EpochLeft =>
            LET i == loc[0].i
                d == EpochDir(i + 1)
            IN  ((i + 1) % args.save_interval_epochs = 0 \/ i = args.num_epochs - 1)
                <=> /\ pc[0] = "early"
                    /\ loc[0].save_dir = d
                    /\ \A f \in loc[0].toWrite : files[d][f] = loc[0].saveId
                    /\ files[d][".success"] = loc[0].saveId]_vars
    /\ [](  (pc[0] = "done" /\ ~loc[0].stopped /\ loc[0].epochs # <<>>)
          => /\ loc[0].save_dir = EpochDir(args.num_epochs)
             /\ files[EpochDir(args.num_epochs)][".success"] = loc[0].saveId)

\* three epochs with save_interval_epochs 2 and no evaluation set: checkpoints of the
\* epochs 2 and 3, none of epoch 1
C15_Witness ==
    /\ pc[0] = "done" /\ calls = 0
    /\ args.num_epochs = 3 /\ args.save_interval_epochs = 2 /\ args.eval_n = -1
    /\ loc[0].epochs = <<0, 1, 2>>
    /\ kind[EpochDir(1)] = "absent"
    /\ files[EpochDir(2)][".success"] # 0
    /\ files[EpochDir(3)][".success"] = loc[0].saveId
\* C16: when the forward pass, the backward pass or the optimizer step raises in epoch
\* i, train_loop of that worker ends with the exception: nothing is tried again, no
\* later mini-batch or epoch runs, completed_epochs stays i and that worker writes no
\* checkpoint of epoch i + 1.
C16_EngineErrorEndsTrainLoop ==
    /\ [](\A w \in Workers : err[w] = "engine" =>
              /\ pc[w] \in {"error", "crashed"}
              /\ self[w].completed_epochs = loc[w].i
              /\ w \notin writers[EpochDir(loc[w].i + 1)]
              /\ w = 0 => kind[EpochDir(loc[w].i + 1)] = "absent")
    /\ [][\A w \in Workers : err[w] = "engine" =>
              /\ err'[w] = "engine"
              /\ loc'[w] = loc[w]
              /\ self'[w] = self[w]]_vars

\* the second mini-batch of the second epoch failed on rank 0: the checkpoint of the
\* first epoch is there, none of the second
C16_Witness ==
    /\ err[0] = "engine" /\ pc[0] = "error"
    /\ loc[0].i = 1 /\ loc[0].step = 1 /\ self[0].completed_epochs = 1
    /\ files[EpochDir(1)][".success"] # 0
    /\ kind[EpochDir(2)] = "absent"
\* the highest of the first k values of a sequence of metric values, b if there is none
RECURSIVE BestOf(_, _, _)
BestOf(seq, k, b) == IF k = 0 THEN b ELSE BestOf(seq, k - 1, Max(b, seq[k]))

\* C17 (as claimed): the document that save_model writes on rank 0 holds one metric
\* entry, the best primary-metric value of all evaluations so far, and none when no
\* evaluation has been run.
C17_MetadataHoldsBestMetric ==
    pc[0] = "save" =>
        LET best == BestOf(evalValues, loc[0].evals, priorBest)
        IN  loc[0].model_info.eval_metrics = IF best = -1 THEN <<>> ELSE <<best>>
\* C18: when every worker computes the same accuracy v in an evaluation, the metric of
\* that evaluation (the all-reduced sum over the world size) is v, as on one worker.
C18_AgreeingWorkersKeepValue ==
    (evalAgree # <<>> /\ evalValues # <<>>) => evalValues[Len(evalValues)] = evalAgree[1]

\* two workers both computed the accuracy 2 and the evaluation gave 2
C18_Witness ==
    /\ nranks = 2
    /\ evalAgree = <<2>>
    /\ evalValues # <<>> /\ evalValues[Len(evalValues)] = 2
    /\ \A w \in Workers : loc[w].evals = Len(evalValues) /\ self[w].eval_metrics = <<2>>
\* C19 (as claimed): the loader that evaluate builds never shuffles and never drops the
\* last partial batch, whatever the shuffle flag of the evaluation dataset.
C19_EvalLoaderInOrderAndWhole ==
    \A w \in Workers :
        self[w].eval_data_loader # <<>> =>
            /\ ~self[w].eval_data_loader[1].shuffle
            /\ ~self[w].eval_data_loader[1].drop_last
\* C20 (as claimed): prune keeps out of pruning exactly the parameters whose leading
\* dimension is below 8; a parameter whose leading dimension is 8 or more is eligible.
C20_SkipsOnlyBelowMinWidth ==
    self[0].status = "Pruned" =>
        /\ self[0].skip_vars = {p \in NetParameters : p < 8}
        /\ \A p \in NetParameters : p >= 8 => p \notin self[0].skip_vars
\* C21: analyze_sensitivity on a model of a family without pruning support, or with a
\* criterion other than l1_norm and fpgm, fails before it changes anything: no pruner,
\* the same network mode, the same transforms of the dataset, no file, no directory.
C21_RefusedAnalysisChangesNothing ==
    [][\A c \in Criteria :
          (/\ AnalyzeSensitivity(c)
           /\ \/ self[0].class_name \in {"FasterRCNN", "MaskRCNN"}
              \/ c \notin {"l1_norm", "fpgm"})
          => /\ pc'[0] = "error"
             /\ err'[0] \in {"unsupported", "criterion"}
             /\ self' = self
             /\ sensi' = sensi
             /\ kind' = kind /\ files' = files /\ meta' = meta /\ nsaves' = nsaves]_vars

\* a trained classifier whose network an evaluation left in eval mode was given a
\* criterion that is not supported
C21_Witness ==
    /\ err[0] = "criterion" /\ pc[0] = "error"
    /\ calls = 1 /\ self[0].net_mode = "eval"
    /\ ~self[0].pruner
    /\ sensi = [dir |-> FALSE, file |-> FALSE, transforms |-> "none"]
\* the positions of the batches given since the reset in which key k appeared
Appeared(k) == {j \in 1 .. Len(stats.seen) : k \in stats.seen[j].keys}

\* the sum of the values of key k in the batches at the positions P
RECURSIVE SumAt(_, _)
SumAt(k, P) ==
    IF P = {} THEN 0
    ELSE LET j == CHOOSE x \in P : TRUE IN stats.seen[j].val[k] + SumAt(k, P \ {j})

\* C22: for each key the aggregator returns the arithmetic mean of the values of
\* exactly the batches since the last reset in which the key appeared, each key on its
\* own; a key that did not appear has no entry.
C22_MeanPerKeySinceReset ==
    \A k \in StatKeys :
        IF Appeared(k) = {}
        THEN k \notin DOMAIN StatsGet(stats)
        ELSE /\ k \in DOMAIN StatsGet(stats)
             /\ StatsGet(stats)[k] = <<SumAt(k, Appeared(k)), Cardinality(Appeared(k))>>

\* the batches {a:1, b:2}, {a:3}: the mean of a is 4/2 = 2, the mean of b is 2/1 = 2
C22_Witness ==
    /\ Len(stats.seen) = 2
    /\ stats.seen[1].keys = {"a", "b"} /\ stats.seen[1].val = [k \in StatKeys |-> IF k = "a" THEN 1 ELSE 2]
    /\ stats.seen[2].keys = {"a"} /\ stats.seen[2].val["a"] = 3
    /\ StatsGet(stats)["a"] = <<4, 2>>
    /\ StatsGet(stats)["b"] = <<2, 1>>
\* C23 (as claimed): when warmup_steps > 0 and warmup_steps > lr_decay_epochs[0] *
\* num_steps_each_epoch, the error is logged, the optimizer carries the warm-up
\* schedule, and train goes on into train_loop: the process is not ended.
C23_MisconfiguredWarmupGoesOn ==
    \A w \in Workers :
        (/\ args.optimizer = "default"
         /\ args.warmup_steps > 0
         /\ args.warmup_steps
              > args.lr_decay_epochs * (args.train_n \div args.train_batch_size))
        => /\ <<"warmup_error", w>> \in logged
           /\ self[w].optimizer /\ self[w].lr_schedule = "LinearWarmup"
           /\ err[w] # "exit"
\* C24: save_model on a path that exists and is no directory removes it and makes the
\* directory before it writes any file; on a path that is a directory it removes
\* nothing.
C24_SavePreparesDirectory ==
    /\ [][\A w \in Workers :
            (pc[w] # "save" /\ pc'[w] = "save") =>
                LET d == loc'[w].save_dir
                IN  /\ kind'[d] = "dir"
                    /\ kind[d] = "file" => \A f \in FileNames : files'[d][f] = 0
                    /\ kind[d] = "dir" => files'[d] = files[d] /\ meta'[d] = meta[d]]_vars
    /\ [](\A d \in Dirs : (\E f \in FileNames : files[d][f] # 0) => kind[d] = "dir")

\* the path of epoch_1 was a plain file; the save removed it and wrote the checkpoint
\* into the directory made in its place
C24_Witness ==
    /\ loc[0].removedFile
    /\ loc[0].save_dir = EpochDir(1)
    /\ kind[EpochDir(1)] = "dir"
    /\ files[EpochDir(1)][".success"] = loc[0].saveId
\* C25 (as claimed): with early stopping in a distributed run, a stop signal ends the
\* epoch loop on every worker at the same epoch: no worker starts an epoch after the
\* one at which another worker has left the loop.
C25_StopEndsLoopOnEveryWorker ==
    \A v, w \in Workers :
        (loc[v].stopped /\ pc[v] \in {"done", "idle"} /\ calls = 0)
        => ~(pc[w] = "batch" /\ loc[w].i > loc[v].i)
\* C26 (as claimed): with an evaluation set of zero samples train_loop runs no
\* evaluation, raises no error of its own, and ends with all requested epochs
\* completed, with early stopping and without.
C26_EmptyEvalSetRunsThrough ==
    \A w \in Workers :
        args.eval_n = 0 =>
            /\ loc[w].evals = 0
            /\ err[w] \notin {"unbound", "size_eval"}
            /\ pc[w] = "done" => self[w].completed_epochs >= args.num_epochs
\* C27: every mini-batch runs the forward pass in train mode, the backward pass, one
\* optimizer step on the gradients of that pass, the clearing of the gradients and
\* then one advance of the learning-rate schedule if there is one; no backward pass
\* finds gradients that were not cleared, and the learning rate reported for a step is
\* read before the schedule advances.
C27_BatchOrder ==
    \A w \in Workers :
        LET e == loc[w].eng
            n == loc[w].current_step
        IN  n > 0 =>
              /\ e.fwd = "train"
              /\ e.clean /\ e.grad = 0
              /\ e.steps = n /\ e.used = 1
              /\ IF self[w].lr_schedule = "none"
                 THEN e.sched = 0 /\ e.lr = 0
                 ELSE e.sched = n /\ e.lr = n - 1

\* two epochs of two mini-batches with the default optimizer, the first epoch followed
\* by an evaluation: four optimizer steps, the schedule advanced four times
C27_Witness ==
    /\ loc[0].current_step = 4 /\ loc[0].eng.steps = 4
    /\ loc[0].eng.sched = 4 /\ loc[0].eng.lr = 3
    /\ loc[0].evals >= 1
    /\ self[0].lr_schedule = "PiecewiseDecay"
\* C28: every training step runs with the network in training mode, also in the
\* epochs that follow an evaluation, which leaves the network in inference mode.
C28_StepsInTrainMode ==
    [][\A w \in Workers :
          TrainStep(w) => self[w].net_mode = "train" /\ loc'[w].eng.fwd = "train"]_vars

\* the epoch before this one ended with an evaluation; its first mini-batch ran in
\* training mode
C28_Witness ==
    /\ pc[0] = "batch" /\ loc[0].i >= 1
    /\ loc[0].step = 1 /\ loc[0].step_epoch = loc[0].i
    /\ loc[0].evals >= 1 /\ evalEpochs[loc[0].evals] = loc[0].i
    /\ self[0].net_mode = "train" /\ loc[0].eng.fwd = "train"
\* C29: the document of checkpoint epoch_k records completed_epochs = k, in fresh and
\* in resumed runs, so a run resumed from epoch_k starts at epoch index k.
C29_CheckpointNameIsEpochCount ==
    \A k \in 1 .. MaxEpochs :
        files[EpochDir(k)]["model.yml"] # 0 =>
            /\ meta[EpochDir(k)].completed_epochs = k
            /\ StartEpoch(meta[EpochDir(k)].completed_epochs) = k

\* a second call of train on a model with one completed epoch wrote epoch_2
C29_Witness ==
    /\ calls = 1 /\ loc[0].entry_epochs = 1
    /\ loc[0].save_dir = EpochDir(2)
    /\ files[EpochDir(2)][".success"] = loc[0].saveId
    /\ meta[EpochDir(1)].completed_epochs = 1
    /\ meta[EpochDir(2)].completed_epochs = 2
\* rank 0 has made the best-model selection of all its evaluations of this call, and
\* no save into best_model is under way or was cut off
SelectionDone ==
    /\ loc[0].evals >= 1
    /\ pc[0] # "evaluated"
    /\ ~(loc[0].save_dir = BestDir /\ loc[0].saveStep # 0)

\* C30: after every evaluation of one call of train_loop the tracked best value is the
\* highest primary metric of the evaluations of the call so far, and best_model is the
\* checkpoint written at the first epoch that reached it: its document records that
\* epoch as completed_epochs and that value as the evaluation metric.
C30_BestIsFirstMaximum ==
    SelectionDone =>
        LET n == loc[0].evals
            top == BestOf(evalValues, n, -1)
            first == CHOOSE k \in 1 .. n :
                        /\ evalValues[k] = top
                        /\ \A j \in 1 .. (k - 1) : evalValues[j] < top
        IN  /\ loc[0].best_accuracy = top
            /\ loc[0].best_model_epoch = evalEpochs[first]
            /\ files[BestDir][".success"] # 0
            /\ meta[BestDir].completed_epochs = evalEpochs[first]
            /\ meta[BestDir].eval_metrics = <<top>>

\* the evaluations gave 1, 2, 2: best_model is the checkpoint of the second epoch
C30_Witness ==
    /\ pc[0] = "done" /\ loc[0].evals = 3
    /\ evalValues = <<1, 2, 2>> /\ evalEpochs = <<1, 2, 3>>
    /\ loc[0].best_model_epoch = 2
    /\ meta[BestDir].completed_epochs = 2 /\ meta[BestDir].eval_metrics = <<2>>

\* C31: whenever the live status is Pruned a pruner is attached; a call that failed for
\* the missing pruner left the status Normal; and every checkpoint directory whose
\* marker and model.yml are of one save made with status Pruned holds the prune.yml of
\* that same save.
C31_PrunedHasPruner ==
    /\ \A w \in Workers :
         /\ self[w].status = "Pruned" => self[w].pruner /\ self[w].pruning_ratios
         /\ err[w] = "no_pruner" => self[w].status = "Normal"
    /\ \A d \in Dirs \ {InferDir} :
         (/\ files[d]["model.yml"] # 0
          /\ files[d][".success"] = files[d]["model.yml"]
          /\ meta[d].status = "Pruned")
         => files[d]["prune.yml"] = files[d]["model.yml"]

\* a pruned model was trained on, and its checkpoint epoch_1 is complete and holds the
\* pruning-info document
C31_Witness ==
    /\ self[0].status = "Pruned"
    /\ meta[EpochDir(1)].status = "Pruned"
    /\ files[EpochDir(1)][".success"] = files[EpochDir(1)]["model.yml"]
    /\ files[EpochDir(1)]["prune.yml"] = files[EpochDir(1)]["model.yml"]
    /\ pc[0] = "idle"

\* C32: at every emission of a step log line the step counter of the call is at most
\* train_total_step = floor(num_samples / train_batch_size) * (num_epochs - start_epoch),
\* so that the estimated time remaining is not negative, for any number of workers and
\* any size of the training set that passes the size check.
C32_LoggedStepWithinTotal ==
    [][(/\ loc'[0].current_step = loc[0].current_step + 1
        /\ <<"step", 0>> \in logged'
        /\ loc'[0].current_step % args.log_interval_steps = 0)
       => loc'[0].current_step <= loc'[0].train_total_step]_vars

====
